---- MODULE Spec2Model ----
(***************************************************************************)
(* Ledger core of the digital wallet: TransactionService (deposit,         *)
(* withdraw, transfer, reverseTransaction) over AccountModel and           *)
(* TransactionModel, and the route handlers that write the same tables     *)
(* directly through prisma.                                                *)
(*                                                                         *)
(* Every `await` on the database is one atomic step of a request; the      *)
(* local computation between two awaits belongs to the step of the await   *)
(* that follows it.  A prisma.$transaction is one atomic step.             *)
(***************************************************************************)
EXTENDS Integers, Sequences, FiniteSets, TLC

\* ---------------------------------------------------------------- bounds
MaxTx == 4          \* at most this many Transaction rows are created
MaxAmount == 1      \* largest amount a request carries
MaxFaults == 1      \* at most this many database calls throw
MaxAccounts == 5    \* at most this many Account rows are created
MaxClock == 2       \* the rows are created within this many clock ticks (milliseconds)

\* ------------------------------------------------------------ the tables
Users == {"u1", "u2", "u3"}
AccountIds == {"a1", "a2", "a3"}
Procs == {"p1", "p2"}

NoAccount == "null"     \* a null / missing account id
NoTx == 0               \* a null / missing transaction id
NoUser == "null"

UnknownEmail == "nobody@wallet.io"      \* well formed, not registered
MalformedEmail == "not-an-email"

\* User rows: User.email is unique (migration.sql line 44).
UserEmail == ("u1" :> "u1@wallet.io") @@ ("u2" :> "u2@wallet.io") @@ ("u3" :> "u3@wallet.io")

\* The account UserService.create opened for each user at registration.
FirstAccount == ("u1" :> "a1") @@ ("u2" :> "a2") @@ ("u3" :> "a3")

Emails == {UserEmail[u] : u \in Users} \cup {UnknownEmail, MalformedEmail}

\* Validator.isValidEmail: /^[^\s@]+@[^\s@]+\.[^\s@]+$/
isValidEmail(email) == email \in {UserEmail[u] : u \in Users} \cup {UnknownEmail}

VARIABLES
    accounts,       \* Account table: id -> [userId, balance]
    transactions,   \* Transaction table: row i has id i; rows are in createdAt order
    pc,             \* per request slot: the await the handler is suspended at
    call,           \* per request slot: the handler's arguments and locals
    faults,         \* database calls that have thrown so far
    observing,      \* TRUE: one client at a time, its requests and responses recorded
    request,        \* the client's current (or last) request
    response,       \* the response to it, Pending while the handler runs
    before,         \* both tables as they were when the request was made
    previous,       \* the request answered just before, when it moved money
    result          \* the data the response carries

dbvars == <<accounts, transactions>>
obsvars == <<observing, request, response, before, previous, result>>
vars == <<accounts, transactions, pc, call, faults,
          observing, request, response, before, previous, result>>

\* ------------------------------------------------------------- responses
Pending == "PENDING"
Success == "SUCCESS"
INVALID_DATA == "Dados invalidos"
INVALID_AMOUNT == "Valor invalido"
ACCOUNT_NOT_FOUND == "Conta nao encontrada"
INSUFFICIENT_BALANCE == "Saldo insuficiente"
RECIPIENT_NOT_FOUND == "Usuario destinatario nao encontrado"
SAME_ACCOUNT == "Nao e possivel transferir para a mesma conta"
TRANSACTION_NOT_FOUND == "Transacao nao encontrada"
ONLY_TRANSFERS_CAN_BE_REVERSED == "Apenas transferencias podem ser estornadas"
TRANSACTION_ALREADY_REVERSED == "Esta transacao ja foi estornada"
ONLY_SENDER_CAN_REVERSE == "Voce so pode estornar transferencias que voce enviou"
TRANSACTION_FAILED == "Falha na transacao"

\* ------------------------------------------------------------ the models
\* findByUserIdAndId with the userId left out of the where clause.
findByUserIdAndIdAnyOwner(userId, accountId) ==
    IF accountId \in DOMAIN accounts THEN accountId ELSE NoAccount

\* AccountModel.findByUserIdAndId: the account with this id owned by this user.
findByUserIdAndId(userId, accountId) ==
    IF accountId \in DOMAIN accounts /\ accounts[accountId].userId = userId
    THEN accountId ELSE NoAccount

\* AccountModel.findByUserId: the ids of the accounts the user owns.
findByUserId(userId) == {a \in DOMAIN accounts : accounts[a].userId = userId}

\* AccountModel.findByUserEmail: findFirst over the accounts of the user with
\* this email; any of them when the user has several, null when there is none.
findByUserEmail(email) ==
    LET owned == {a \in DOMAIN accounts :
                    /\ accounts[a].userId \in Users
                    /\ UserEmail[accounts[a].userId] = email}
    IN IF owned = {} THEN {NoAccount} ELSE owned

\* updateBalance writing the amount as the balance instead of incrementing by it.
updateBalanceSet(id, amount) ==
    [accounts EXCEPT ![id].balance = amount]

\* AccountModel.updateBalance: balance = balance + amount, in one UPDATE.
updateBalance(id, amount) ==
    [accounts EXCEPT ![id].balance = @ + amount]

\* TransactionModel.create: a new row; the fields left out are null.
create(data) == Append(transactions, data)

Row(type, amount, accountId, senderAccountId, receiverAccountId, reversedTransactionId) ==
    [type |-> type, amount |-> amount, accountId |-> accountId,
     senderAccountId |-> senderAccountId, receiverAccountId |-> receiverAccountId,
     reversedTransactionId |-> reversedTransactionId]

\* TransactionModel.findById
findById(id) == IF id \in 1..Len(transactions) THEN id ELSE NoTx

\* hasBeenReversed with a check that never finds the reversal.
hasBeenReversedNever(transactionId) ==
    Cardinality({i \in 1..Len(transactions) :
                    /\ transactions[i].type = "REVERSED"
                    /\ transactions[i].reversedTransactionId = transactionId}) > 0

\* TransactionModel.hasBeenReversed: count of REVERSAL rows pointing at it > 0.
hasBeenReversed(transactionId) ==
    Cardinality({i \in 1..Len(transactions) :
                    /\ transactions[i].type = "REVERSAL"
                    /\ transactions[i].reversedTransactionId = transactionId}) > 0

\* ------------------------------------------------- requests and locals
NoCall ==
    [userId |-> NoUser, accountId |-> NoAccount, amount |-> 0, targetEmail |-> "",
     transactionId |-> NoTx, targetUserId |-> NoUser, targetAccountId |-> NoAccount,
     created |-> NoTx]

Request(op, userId, accountId, amount, targetEmail, transactionId) ==
    [op |-> op, userId |-> userId, accountId |-> accountId, amount |-> amount,
     targetEmail |-> targetEmail, transactionId |-> transactionId]

NoRequest == Request("none", NoUser, NoAccount, 0, "", NoTx)

NoPrevious == [request |-> NoRequest, created |-> NoTx, balances |-> <<>>]

Tables == [accounts |-> accounts, transactions |-> transactions]

Balances(accts) == [a \in DOMAIN accts |-> accts[a].balance]

NoTables == [accounts |-> <<>>, transactions |-> <<>>]

\* The client sends a request once it has put the last response away, and
\* records the tables as they are and what its first step answers.
ObserveCall(req, out, data) ==
    IF observing
    THEN /\ request' = req
         /\ response' = out
         /\ before' = Tables
         /\ result' = data
         /\ UNCHANGED <<observing, previous>>
    ELSE UNCHANGED obsvars

\* A response without data: an error, or a handler that has not answered yet.
NoResult == <<>>

ObserveRequest(req, out) == ObserveCall(req, out, NoResult)

\* The client puts an answered request away; a transfer or a reversal that
\* succeeded is remembered until the next answer is put away.
Forget ==
    /\ observing
    /\ request # NoRequest
    /\ response # Pending
    /\ request' = NoRequest
    /\ response' = "NONE"
    /\ before' = NoTables
    /\ result' = NoResult
    /\ previous' = IF response = Success /\ request.op \in {"transfer", "reverseTransaction"}
                   THEN [request |-> request,
                         created |-> Len(before.transactions) + 1,
                         balances |-> Balances(before.accounts)]
                   ELSE NoPrevious
    /\ UNCHANGED <<accounts, transactions, pc, call, faults, observing>>

\* What it records when a later step of the handler answers `out`.
ObserveReturn(out, data) ==
    IF observing
    THEN /\ response' = out
         /\ result' = data
         /\ UNCHANGED <<observing, request, before, previous>>
    ELSE UNCHANGED obsvars

ObserveResponse(out) == ObserveReturn(out, NoResult)

\* The handler's `transaction`: the row TransactionModel.create returned to it.
Created(p) == [id |-> call[p].created] @@ transactions[call[p].created]

\* Steps that have not inserted their Transaction row yet.
BeforeCreate ==
    {"deposit.create", "withdraw.create",
     "transfer.findByUserEmail", "transfer.create",
     "reverse.hasBeenReversed", "reverse.findByUserId", "reverse.create",
     "depositRoute.transaction",
     "transferRoute.findUser", "transferRoute.findAccount", "transferRoute.transaction",
     "reversalRoute.transaction"}

\* The model stops accepting requests that could create a row beyond MaxTx.
HasBudget ==
    Len(transactions) + Cardinality({q \in Procs : pc[q] \in BeforeCreate}) < MaxTx

\* Slot p can take a request: no handler runs in it, and the observed client
\* has put its last response away.
CanSend(p) == pc[p] = "idle" /\ (observing => request = NoRequest)

\* A request the handler rejects before its first write changes no table and
\* leaves the slot idle: with no client recording the answer the step changes
\* nothing at all, and only the recorded ones are taken as steps.
Visible(out) == out = Pending \/ observing

\* A handler step: slot p moves to `next` with locals `locals`, or returns.
Goto(p, out, next, locals) ==
    /\ pc' = [pc EXCEPT ![p] = IF out = Pending THEN next ELSE "idle"]
    /\ call' = [call EXCEPT ![p] = IF out = Pending THEN locals ELSE NoCall]

\* --------------------------------------------- TransactionService.deposit
\* depositOutcome refusing only negative amounts: a deposit of zero goes through.
depositOutcomeZero(userId, data) ==
    IF userId = NoUser \/ data.accountId = NoAccount THEN INVALID_DATA
    ELSE IF data.amount < 0 THEN INVALID_AMOUNT
    ELSE IF findByUserIdAndId(userId, data.accountId) = NoAccount THEN ACCOUNT_NOT_FOUND
    ELSE Pending

depositOutcome(userId, data) ==
    IF userId = NoUser \/ data.accountId = NoAccount THEN INVALID_DATA
    ELSE IF data.amount = 0 \/ data.amount <= 0 THEN INVALID_AMOUNT
    ELSE IF findByUserIdAndId(userId, data.accountId) = NoAccount THEN ACCOUNT_NOT_FOUND
    ELSE Pending

deposit(p, userId, data) ==
    LET out == depositOutcome(userId, data) IN
    /\ CanSend(p)
    /\ Visible(out)
    /\ out = Pending => HasBudget
    /\ Goto(p, out, "deposit.create",
            [NoCall EXCEPT !.userId = userId, !.accountId = data.accountId,
                           !.amount = data.amount])
    /\ UNCHANGED <<accounts, transactions, faults>>
    /\ ObserveRequest(Request("deposit", userId, data.accountId, data.amount, "", NoTx), out)

depositCreate(p) ==
    /\ pc[p] = "deposit.create"
    /\ transactions' = create(Row("DEPOSIT", call[p].amount, call[p].accountId,
                                  NoAccount, NoAccount, NoTx))
    /\ pc' = [pc EXCEPT ![p] = "deposit.updateBalance"]
    /\ call' = [call EXCEPT ![p].created = Len(transactions) + 1]
    /\ UNCHANGED <<accounts, faults>>
    /\ ObserveResponse(Pending)

depositUpdateBalance(p) ==
    /\ pc[p] = "deposit.updateBalance"
    /\ accounts' = updateBalance(call[p].accountId, call[p].amount)
    /\ Goto(p, Success, "idle", NoCall)
    /\ UNCHANGED <<transactions, faults>>
    /\ ObserveReturn(Success, Created(p))

\* -------------------------------------------- TransactionService.withdraw
\* withdrawOutcome with the balance check of transfer added.
withdrawOutcomeChecked(userId, data) ==
    IF userId = NoUser \/ data.accountId = NoAccount THEN INVALID_DATA
    ELSE IF data.amount = 0 \/ data.amount <= 0 THEN INVALID_AMOUNT
    ELSE IF findByUserIdAndId(userId, data.accountId) = NoAccount THEN ACCOUNT_NOT_FOUND
    ELSE IF accounts[data.accountId].balance < data.amount THEN INSUFFICIENT_BALANCE
    ELSE Pending

withdrawOutcome(userId, data) ==
    IF userId = NoUser \/ data.accountId = NoAccount THEN INVALID_DATA
    ELSE IF data.amount = 0 \/ data.amount <= 0 THEN INVALID_AMOUNT
    ELSE IF findByUserIdAndId(userId, data.accountId) = NoAccount THEN ACCOUNT_NOT_FOUND
    ELSE Pending

withdraw(p, userId, data) ==
    LET out == withdrawOutcome(userId, data) IN
    /\ CanSend(p)
    /\ Visible(out)
    /\ out = Pending => HasBudget
    /\ Goto(p, out, "withdraw.create",
            [NoCall EXCEPT !.userId = userId, !.accountId = data.accountId,
                           !.amount = data.amount])
    /\ UNCHANGED <<accounts, transactions, faults>>
    /\ ObserveRequest(Request("withdraw", userId, data.accountId, data.amount, "", NoTx), out)

withdrawCreate(p) ==
    /\ pc[p] = "withdraw.create"
    /\ transactions' = create(Row("WITHDRAW", call[p].amount, call[p].accountId,
                                  NoAccount, NoAccount, NoTx))
    /\ pc' = [pc EXCEPT ![p] = "withdraw.updateBalance"]
    /\ call' = [call EXCEPT ![p].created = Len(transactions) + 1]
    /\ UNCHANGED <<accounts, faults>>
    /\ ObserveResponse(Pending)

\* withdrawUpdateBalance without the minus sign.
withdrawUpdateBalancePositive(p) ==
    /\ pc[p] = "withdraw.updateBalance"
    /\ accounts' = updateBalance(call[p].accountId, call[p].amount)
    /\ Goto(p, Success, "idle", NoCall)
    /\ UNCHANGED <<transactions, faults>>
    /\ ObserveReturn(Success, Created(p))

withdrawUpdateBalance(p) ==
    /\ pc[p] = "withdraw.updateBalance"
    /\ accounts' = updateBalance(call[p].accountId, 0 - call[p].amount)
    /\ Goto(p, Success, "idle", NoCall)
    /\ UNCHANGED <<transactions, faults>>
    /\ ObserveReturn(Success, Created(p))

\* transferOutcome with the balance compared by <= : the exact balance refused.
transferOutcomeStrict(userId, data) ==
    IF userId = NoUser \/ data.sourceAccountId = NoAccount \/ data.targetEmail = ""
    THEN INVALID_DATA
    ELSE IF data.amount = 0 \/ data.amount <= 0 THEN INVALID_AMOUNT
    ELSE IF ~isValidEmail(data.targetEmail) THEN INVALID_DATA
    ELSE IF findByUserIdAndId(userId, data.sourceAccountId) = NoAccount
    THEN ACCOUNT_NOT_FOUND
    ELSE IF accounts[data.sourceAccountId].balance <= data.amount
    THEN INSUFFICIENT_BALANCE
    ELSE Pending

\* -------------------------------------------- TransactionService.transfer
\* Validation, the read of the source account and the balance check on the
\* balance that read returned.
transferOutcome(userId, data) ==
    IF userId = NoUser \/ data.sourceAccountId = NoAccount \/ data.targetEmail = ""
    THEN INVALID_DATA
    ELSE IF data.amount = 0 \/ data.amount <= 0 THEN INVALID_AMOUNT
    ELSE IF ~isValidEmail(data.targetEmail) THEN INVALID_DATA
    ELSE IF findByUserIdAndId(userId, data.sourceAccountId) = NoAccount
    THEN ACCOUNT_NOT_FOUND
    ELSE IF accounts[data.sourceAccountId].balance < data.amount
    THEN INSUFFICIENT_BALANCE
    ELSE Pending

transfer(p, userId, data) ==
    LET out == transferOutcome(userId, data) IN
    /\ CanSend(p)
    /\ Visible(out)
    /\ out = Pending => HasBudget
    /\ Goto(p, out, "transfer.findByUserEmail",
            [NoCall EXCEPT !.userId = userId, !.accountId = data.sourceAccountId,
                           !.amount = data.amount, !.targetEmail = data.targetEmail])
    /\ UNCHANGED <<accounts, transactions, faults>>
    /\ ObserveRequest(Request("transfer", userId, data.sourceAccountId, data.amount,
                              data.targetEmail, NoTx), out)

\* The lookup of the target account and the same-account check.
transferTargetOutcome(sourceAccountId, targetAccount) ==
    IF targetAccount = NoAccount THEN RECIPIENT_NOT_FOUND
    ELSE IF sourceAccountId = targetAccount THEN SAME_ACCOUNT
    ELSE Pending

transferFindByUserEmail(p) ==
    /\ pc[p] = "transfer.findByUserEmail"
    /\ \E targetAccount \in findByUserEmail(call[p].targetEmail) :
        LET out == transferTargetOutcome(call[p].accountId, targetAccount) IN
        /\ Goto(p, out, "transfer.create",
                [call[p] EXCEPT !.targetAccountId = targetAccount])
        /\ ObserveResponse(out)
    /\ UNCHANGED <<accounts, transactions, faults>>

\* transferCreate filing the row under the target account.
transferCreateUnderTarget(p) ==
    /\ pc[p] = "transfer.create"
    /\ transactions' = create(Row("TRANSFER", call[p].amount, call[p].targetAccountId,
                                  call[p].accountId, call[p].targetAccountId, NoTx))
    /\ pc' = [pc EXCEPT ![p] = "transfer.debit"]
    /\ call' = [call EXCEPT ![p].created = Len(transactions) + 1]
    /\ UNCHANGED <<accounts, faults>>
    /\ ObserveResponse(Pending)

transferCreate(p) ==
    /\ pc[p] = "transfer.create"
    /\ transactions' = create(Row("TRANSFER", call[p].amount, call[p].accountId,
                                  call[p].accountId, call[p].targetAccountId, NoTx))
    /\ pc' = [pc EXCEPT ![p] = "transfer.debit"]
    /\ call' = [call EXCEPT ![p].created = Len(transactions) + 1]
    /\ UNCHANGED <<accounts, faults>>
    /\ ObserveResponse(Pending)

transferDebit(p) ==
    /\ pc[p] = "transfer.debit"
    /\ accounts' = updateBalance(call[p].accountId, 0 - call[p].amount)
    /\ pc' = [pc EXCEPT ![p] = "transfer.credit"]
    /\ UNCHANGED <<transactions, call, faults>>
    /\ ObserveResponse(Pending)

\* transferCredit with the sign of the credit turned round.
transferCreditNegated(p) ==
    /\ pc[p] = "transfer.credit"
    /\ accounts' = updateBalance(call[p].targetAccountId, 0 - call[p].amount)
    /\ Goto(p, Success, "idle", NoCall)
    /\ UNCHANGED <<transactions, faults>>
    /\ ObserveReturn(Success, Created(p))

transferCredit(p) ==
    /\ pc[p] = "transfer.credit"
    /\ accounts' = updateBalance(call[p].targetAccountId, call[p].amount)
    /\ Goto(p, Success, "idle", NoCall)
    /\ UNCHANGED <<transactions, faults>>
    /\ ObserveReturn(Success, Created(p))

\* ---------------------------------- TransactionService.reverseTransaction
\* The rows' type, amount, accountId, senderAccountId and receiverAccountId are
\* never written after the insert, so the handler's copy of the original
\* (originalTransaction) is read from the table where it is used.
reverseOutcome(userId, transactionId) ==
    IF userId = NoUser \/ transactionId = NoTx THEN INVALID_DATA
    ELSE IF findById(transactionId) = NoTx THEN TRANSACTION_NOT_FOUND
    ELSE IF transactions[transactionId].type # "TRANSFER"
    THEN ONLY_TRANSFERS_CAN_BE_REVERSED
    ELSE Pending

reverseTransaction(p, userId, transactionId) ==
    LET out == reverseOutcome(userId, transactionId) IN
    /\ CanSend(p)
    /\ Visible(out)
    /\ out = Pending => HasBudget
    /\ Goto(p, out, "reverse.hasBeenReversed",
            [NoCall EXCEPT !.userId = userId, !.transactionId = transactionId])
    /\ UNCHANGED <<accounts, transactions, faults>>
    /\ ObserveRequest(Request("reverseTransaction", userId, NoAccount, 0, "",
                              transactionId), out)

reverseAlreadyOutcome(transactionId) ==
    IF hasBeenReversed(transactionId) THEN TRANSACTION_ALREADY_REVERSED ELSE Pending

reverseHasBeenReversed(p) ==
    LET out == reverseAlreadyOutcome(call[p].transactionId) IN
    /\ pc[p] = "reverse.hasBeenReversed"
    /\ Goto(p, out, "reverse.findByUserId", call[p])
    /\ UNCHANGED <<accounts, transactions, faults>>
    /\ ObserveResponse(out)

\* reverseSenderOutcome with a balance check on the account the reversal debits.
reverseSenderOutcomeChecked(userId, transactionId) ==
    IF transactions[transactionId].senderAccountId \notin findByUserId(userId)
    THEN ONLY_SENDER_CAN_REVERSE
    ELSE IF accounts[transactions[transactionId].receiverAccountId].balance
                < transactions[transactionId].amount
    THEN INSUFFICIENT_BALANCE
    ELSE Pending

\* userAccounts.find(account => account.id === originalTransaction.senderAccountId)
reverseSenderOutcome(userId, transactionId) ==
    IF transactions[transactionId].senderAccountId \in findByUserId(userId)
    THEN Pending ELSE ONLY_SENDER_CAN_REVERSE

\* reverseFindByUserId inserting the REVERSAL row before it answers the sender check.
reverseFindByUserIdLate(p) ==
    LET out == reverseSenderOutcome(call[p].userId, call[p].transactionId) IN
    /\ pc[p] = "reverse.findByUserId"
    /\ Goto(p, out, "reverse.credit", [call[p] EXCEPT !.created = Len(transactions) + 1])
    /\ transactions' = create(Row("REVERSAL", transactions[call[p].transactionId].amount,
                                  transactions[call[p].transactionId].senderAccountId,
                                  transactions[call[p].transactionId].receiverAccountId,
                                  transactions[call[p].transactionId].senderAccountId,
                                  call[p].transactionId))
    /\ UNCHANGED <<accounts, faults>>
    /\ ObserveResponse(out)

reverseFindByUserId(p) ==
    LET out == reverseSenderOutcome(call[p].userId, call[p].transactionId) IN
    /\ pc[p] = "reverse.findByUserId"
    /\ Goto(p, out, "reverse.create", call[p])
    /\ UNCHANGED <<accounts, transactions, faults>>
    /\ ObserveResponse(out)

\* reversalRow carrying the amount with the opposite sign.
reversalRowNegated(transactionId) ==
    LET original == transactions[transactionId] IN
    Row("REVERSAL", 0 - original.amount, original.senderAccountId,
        original.receiverAccountId, original.senderAccountId, transactionId)

reversalRow(transactionId) ==
    LET original == transactions[transactionId] IN
    Row("REVERSAL", original.amount, original.senderAccountId,
        original.receiverAccountId, original.senderAccountId, transactionId)

reverseCreate(p) ==
    /\ pc[p] = "reverse.create"
    /\ transactions' = create(reversalRow(call[p].transactionId))
    /\ pc' = [pc EXCEPT ![p] = "reverse.credit"]
    /\ call' = [call EXCEPT ![p].created = Len(transactions) + 1]
    /\ UNCHANGED <<accounts, faults>>
    /\ ObserveResponse(Pending)

\* reverseCredit crediting the original receiver instead of the original sender.
reverseCreditReceiver(p) ==
    LET original == transactions[call[p].transactionId] IN
    /\ pc[p] = "reverse.credit"
    /\ accounts' = updateBalance(original.receiverAccountId, original.amount)
    /\ pc' = [pc EXCEPT ![p] = "reverse.debit"]
    /\ UNCHANGED <<transactions, call, faults>>
    /\ ObserveResponse(Pending)

reverseCredit(p) ==
    LET original == transactions[call[p].transactionId] IN
    /\ pc[p] = "reverse.credit"
    /\ accounts' = updateBalance(original.senderAccountId, original.amount)
    /\ pc' = [pc EXCEPT ![p] = "reverse.debit"]
    /\ UNCHANGED <<transactions, call, faults>>
    /\ ObserveResponse(Pending)

\* reverseDebit debiting the original sender instead of the original receiver.
reverseDebitSender(p) ==
    LET original == transactions[call[p].transactionId] IN
    /\ pc[p] = "reverse.debit"
    /\ accounts' = updateBalance(original.senderAccountId, 0 - original.amount)
    /\ Goto(p, Success, "idle", NoCall)
    /\ UNCHANGED <<transactions, faults>>
    /\ ObserveReturn(Success, Created(p))

reverseDebit(p) ==
    LET original == transactions[call[p].transactionId] IN
    /\ pc[p] = "reverse.debit"
    /\ accounts' = updateBalance(original.receiverAccountId, 0 - original.amount)
    /\ Goto(p, Success, "idle", NoCall)
    /\ UNCHANGED <<transactions, faults>>
    /\ ObserveReturn(Success, Created(p))

\* ------------------------------------------- route handlers (prisma direct)
SOURCE_NOT_FOUND == "Conta de origem nao encontrada"
TARGET_USER_NOT_FOUND == "Usuario destino nao encontrado"
TARGET_ACCOUNT_NOT_FOUND == "Conta destino nao encontrada"
FORBIDDEN == "Voce nao tem permissao para estornar esta transacao"

\* POST /api/deposit
depositPOSTOutcome(userId, body) ==
    IF body.accountId = NoAccount \/ body.amount = 0 \/ body.amount <= 0 THEN INVALID_DATA
    ELSE IF findByUserIdAndId(userId, body.accountId) = NoAccount THEN ACCOUNT_NOT_FOUND
    ELSE Pending

depositPOST(p, userId, body) ==
    LET out == depositPOSTOutcome(userId, body) IN
    /\ CanSend(p)
    /\ Visible(out)
    /\ out = Pending => HasBudget
    /\ Goto(p, out, "depositRoute.transaction",
            [NoCall EXCEPT !.userId = userId, !.accountId = body.accountId,
                           !.amount = body.amount])
    /\ UNCHANGED <<accounts, transactions, faults>>
    /\ ObserveRequest(Request("depositPOST", userId, body.accountId, body.amount, "", NoTx),
                      out)

\* prisma.$transaction([account.update, transaction.create])
depositPOSTTransaction(p) ==
    /\ pc[p] = "depositRoute.transaction"
    /\ accounts' = updateBalance(call[p].accountId, call[p].amount)
    /\ transactions' = create(Row("DEPOSIT", call[p].amount, call[p].accountId,
                                  NoAccount, call[p].accountId, NoTx))
    /\ Goto(p, Success, "idle", NoCall)
    /\ UNCHANGED faults
    /\ ObserveReturn(Success, [newBalance |-> accounts'[call[p].accountId].balance])

\* POST /api/transfer
transferPOSTOutcome(userId, body) ==
    IF \/ body.sourceAccountId = NoAccount
       \/ body.targetEmail = ""
       \/ body.amount = 0
       \/ body.amount <= 0
    THEN INVALID_DATA
    ELSE IF findByUserIdAndId(userId, body.sourceAccountId) = NoAccount
    THEN SOURCE_NOT_FOUND
    ELSE IF accounts[body.sourceAccountId].balance < body.amount
    THEN INSUFFICIENT_BALANCE
    ELSE Pending

transferPOST(p, userId, body) ==
    LET out == transferPOSTOutcome(userId, body) IN
    /\ CanSend(p)
    /\ Visible(out)
    /\ out = Pending => HasBudget
    /\ Goto(p, out, "transferRoute.findUser",
            [NoCall EXCEPT !.userId = userId, !.accountId = body.sourceAccountId,
                           !.amount = body.amount, !.targetEmail = body.targetEmail])
    /\ UNCHANGED <<accounts, transactions, faults>>
    /\ ObserveRequest(Request("transferPOST", userId, body.sourceAccountId, body.amount,
                              body.targetEmail, NoTx), out)

\* prisma.user.findUnique({ where: { email } })
findUserByEmail(email) ==
    IF \E u \in Users : UserEmail[u] = email
    THEN CHOOSE u \in Users : UserEmail[u] = email
    ELSE NoUser

transferPOSTFindUser(p) ==
    LET targetUser == findUserByEmail(call[p].targetEmail)
        out == IF targetUser = NoUser THEN TARGET_USER_NOT_FOUND ELSE Pending
    IN
    /\ pc[p] = "transferRoute.findUser"
    /\ Goto(p, out, "transferRoute.findAccount", [call[p] EXCEPT !.targetUserId = targetUser])
    /\ UNCHANGED <<accounts, transactions, faults>>
    /\ ObserveResponse(out)

\* prisma.account.findFirst({ where: { userId: targetUser.id } })
transferPOSTFindAccount(p) ==
    /\ pc[p] = "transferRoute.findAccount"
    /\ \E targetAccount \in
            IF findByUserId(call[p].targetUserId) = {} THEN {NoAccount}
            ELSE findByUserId(call[p].targetUserId) :
        LET out == IF targetAccount = NoAccount THEN TARGET_ACCOUNT_NOT_FOUND ELSE Pending IN
        /\ Goto(p, out, "transferRoute.transaction",
                [call[p] EXCEPT !.targetAccountId = targetAccount])
        /\ ObserveResponse(out)
    /\ UNCHANGED <<accounts, transactions, faults>>

\* prisma.$transaction([update source, update target, transaction.create])
transferPOSTTransaction(p) ==
    LET debited == [accounts EXCEPT ![call[p].accountId].balance = @ - call[p].amount] IN
    /\ pc[p] = "transferRoute.transaction"
    /\ accounts' = [debited EXCEPT ![call[p].targetAccountId].balance = @ + call[p].amount]
    /\ transactions' = create(Row("TRANSFER", call[p].amount, call[p].accountId,
                                  call[p].accountId, call[p].targetAccountId, NoTx))
    /\ Goto(p, Success, "idle", NoCall)
    /\ UNCHANGED faults
    /\ ObserveReturn(Success, [newBalance |-> debited[call[p].accountId].balance,
                               transactionId |-> Len(transactions) + 1])

\* POST /api/transactions/[id]/reversal
OwnerOf(accountId) ==
    IF accountId \in DOMAIN accounts THEN accounts[accountId].userId ELSE NoUser

reversalPOSTOutcome(userId, transactionId) ==
    IF findById(transactionId) = NoTx THEN TRANSACTION_NOT_FOUND
    ELSE IF transactions[transactionId].reversedTransactionId # NoTx
    THEN TRANSACTION_ALREADY_REVERSED
    ELSE IF /\ OwnerOf(transactions[transactionId].senderAccountId) # userId
            /\ OwnerOf(transactions[transactionId].receiverAccountId) # userId
    THEN FORBIDDEN
    ELSE Pending

reversalPOST(p, userId, transactionId) ==
    LET out == reversalPOSTOutcome(userId, transactionId) IN
    /\ CanSend(p)
    /\ Visible(out)
    /\ out = Pending => HasBudget
    /\ Goto(p, out, "reversalRoute.transaction",
            [NoCall EXCEPT !.userId = userId, !.transactionId = transactionId])
    /\ UNCHANGED <<accounts, transactions, faults>>
    /\ ObserveRequest(Request("reversalPOST", userId, NoAccount, 0, "", transactionId), out)

\* The balances after the route's reversal of `original`.
reversalPOSTBalances(original) ==
    IF original.receiverAccountId # NoAccount /\ original.senderAccountId # NoAccount
    THEN [accounts EXCEPT
            ![original.receiverAccountId].balance = @ - original.amount,
            ![original.senderAccountId].balance = @ + original.amount]
    ELSE [accounts EXCEPT
            ![original.accountId].balance =
                IF original.type = "DEPOSIT" THEN @ - original.amount
                ELSE @ + original.amount]

\* prisma.$transaction(async tx => { create reversal; update original; update balances })
reversalPOSTTransaction(p) ==
    LET id == call[p].transactionId
        original == transactions[id]
        reversal == Row("REVERSAL", original.amount, original.accountId,
                        original.receiverAccountId, original.senderAccountId, id)
    IN
    /\ pc[p] = "reversalRoute.transaction"
    /\ transactions' = [create(reversal) EXCEPT
                           ![id].reversedTransactionId = Len(transactions) + 1]
    /\ accounts' = reversalPOSTBalances(original)
    /\ Goto(p, Success, "idle", NoCall)
    /\ UNCHANGED faults
    /\ ObserveReturn(Success,
                     [reversalTransaction |-> [id |-> Len(transactions) + 1] @@ reversal])

\* ------------------------------------------------------ transaction list
\* A row as the list query returns it (TransactionModel.findByUserId, include):
\* its columns, the user of senderAccount and the rows that reference it through
\* reversedTransactionId (reversingTransactions).
Included(tables, id) ==
    [id |-> id,
     type |-> tables.transactions[id].type,
     senderUserId |->
        IF tables.transactions[id].senderAccountId \in DOMAIN tables.accounts
        THEN tables.accounts[tables.transactions[id].senderAccountId].userId
        ELSE NoUser,
     reversingTransactions |->
        {j \in 1..Len(tables.transactions) :
            tables.transactions[j].reversedTransactionId = id}]

\* TransactionList.canReverseTransaction, for the signed-in user userId.
canReverseTransaction(transaction, userId) ==
    IF transaction.type # "TRANSFER" THEN FALSE
    ELSE IF transaction.reversingTransactions # {} THEN FALSE
    ELSE transaction.senderUserId = userId

\* Transaction.createdAt is @default(now()): the database clock at the insert,
\* to the millisecond.  Rows inserted later never carry an earlier time, rows
\* inserted within one tick carry the same one.  Nothing but the list query
\* reads the column, so the times are drawn where the query reads them.
Clocks(n) ==
    {c \in [1..n -> 1..MaxClock] : \A i \in 1..n, j \in 1..n : i <= j => c[i] <= c[j]}

\* The where clause of the list query with the receiverAccount branch left out.
listWhereNoReceiver(userId) ==
    {i \in 1..Len(transactions) :
        \/ OwnerOf(transactions[i].accountId) = userId
        \/ OwnerOf(transactions[i].senderAccountId) = userId}

\* where: { OR: [{account: {userId}}, {senderAccount: {userId}}, {receiverAccount: {userId}}] }
listWhere(userId) ==
    {i \in 1..Len(transactions) :
        \/ OwnerOf(transactions[i].accountId) = userId
        \/ OwnerOf(transactions[i].senderAccountId) = userId
        \/ OwnerOf(transactions[i].receiverAccountId) = userId}

\* orderBy: { createdAt: 'desc' }: the selected rows, each once, later times
\* first; the query names no second key, so rows with the same createdAt come
\* in whatever order the database produces.
listOrderBy(ids, createdAt) ==
    {list \in [1..Cardinality(ids) -> ids] :
        /\ \A k \in DOMAIN list, l \in DOMAIN list : k # l => list[k] # list[l]
        /\ \A k \in DOMAIN list, l \in DOMAIN list :
              k < l => createdAt[list[k]] >= createdAt[list[l]]}

\* TransactionModel.findByUserId: the lists findMany can return.
TransactionModel_findByUserId(userId) ==
    UNION {
        {[k \in DOMAIN list |-> Included(Tables, list[k]) @@ [createdAt |-> createdAt[list[k]]]] :
            list \in listOrderBy(listWhere(userId), createdAt)} :
        createdAt \in Clocks(Len(transactions))}

\* TransactionController.getTransactions -> TransactionService.findByUserId
getTransactions(p, userId) ==
    /\ CanSend(p)
    /\ observing
    /\ IF userId = NoUser
       THEN ObserveCall(Request("getTransactions", userId, NoAccount, 0, "", NoTx),
                        INVALID_DATA, NoResult)
       ELSE \E list \in TransactionModel_findByUserId(userId) :
                ObserveCall(Request("getTransactions", userId, NoAccount, 0, "", NoTx),
                            Success, [transactions |-> list])
    /\ UNCHANGED <<accounts, transactions, pc, call, faults>>


\* ------------------------------------------ registration, account creation
EMAIL_IN_USE == "Email ja esta em uso"
UNAUTHORIZED == "Acesso nao autorizado"

\* Account ids are uuids; the ones AccountModel.create draws from.
ExtraAccountIds == {"a4", "a5", "a6", "a7", "a8", "a9"}

\* The User table.  UserService.create inserts the User row and its first
\* Account row in one $transaction and neither is ever deleted, so the users
\* are the owners of the accounts.
Registered == {accounts[a].userId : a \in DOMAIN accounts}

\* UserService.emailExists: UserModel.findByEmail(email) found a user.
emailExists(email) == \E u \in Registered : UserEmail[u] = email

\* A new Account row for userId, balance 0.
NewAccount(id, userId) == accounts @@ (id :> [userId |-> userId, balance |-> 0])

\* UserService.create, up to the check of the email.
UserService_create(p, email) ==
    LET out == IF ~isValidEmail(email) THEN INVALID_DATA
               ELSE IF emailExists(email) THEN EMAIL_IN_USE
               ELSE Pending
    IN
    /\ CanSend(p)
    /\ Visible(out)
    /\ out = Pending => Cardinality(DOMAIN accounts) < MaxAccounts
    /\ Goto(p, out, "userCreate.transaction", [NoCall EXCEPT !.targetEmail = email])
    /\ UNCHANGED <<accounts, transactions, faults>>
    /\ ObserveRequest(Request("register", NoUser, NoAccount, 0, email, NoTx), out)

\* prisma.$transaction(tx => { tx.user.create; tx.account.create })
UserService_createTransaction(p) ==
    LET user == CHOOSE u \in Users : UserEmail[u] = call[p].targetEmail IN
    /\ pc[p] = "userCreate.transaction"
    /\ accounts' = NewAccount(FirstAccount[user], user)
    /\ Goto(p, Success, "idle", NoCall)
    /\ UNCHANGED <<transactions, faults>>
    /\ ObserveReturn(Success, [id |-> user, email |-> call[p].targetEmail])

\* AccountModel.create: prisma.account.create({ data: { userId, balance: 0 } })
AccountModel_create(userId) ==
    NewAccount(CHOOSE id \in ExtraAccountIds : id \notin DOMAIN accounts, userId)

\* AccountController.createAccount -> AccountService.create, for the user of
\* the session (a user who is not registered has none).
createAccount(p, userId) ==
    LET out == IF userId \notin Registered THEN UNAUTHORIZED ELSE Success IN
    /\ CanSend(p)
    /\ Visible(out)
    /\ out = Success => /\ Cardinality(DOMAIN accounts) < MaxAccounts
                        /\ ExtraAccountIds \ DOMAIN accounts # {}
    /\ accounts' = IF out = Success THEN AccountModel_create(userId) ELSE accounts
    /\ UNCHANGED <<transactions, pc, call, faults>>
    /\ ObserveCall(Request("createAccount", userId, NoAccount, 0, "", NoTx), out,
                   IF out = Success
                   THEN [id |-> CHOOSE id \in ExtraAccountIds : id \notin DOMAIN accounts,
                         userId |-> userId, balance |-> 0]
                   ELSE NoResult)

\* ------------------------------------------------------ storage failure
\* The database call the handler is awaiting throws: the catch block answers
\* TRANSACTION_FAILED; what the handler has written stays written.
StorageFailure(p) ==
    /\ pc[p] # "idle"
    /\ faults < MaxFaults
    /\ faults' = faults + 1
    /\ Goto(p, TRANSACTION_FAILED, "idle", NoCall)
    /\ UNCHANGED <<accounts, transactions>>
    /\ ObserveResponse(TRANSACTION_FAILED)

\* -------------------------------------------------------- specification
\* Amounts a request may carry: negative, zero, positive.
Amounts == (0 - 1)..MaxAmount
TxIds == 1..MaxTx

\* Request bodies: the account id and the email may be missing.
AccountData == [accountId : AccountIds \cup {NoAccount}, amount : Amounts]
TransferData == [sourceAccountId : AccountIds \cup {NoAccount},
                 targetEmail : Emails \cup {""}, amount : Amounts]

\* UserService.create: every registered user got one account with balance 0.
InitTables ==
    /\ accounts = [a \in AccountIds |->
                     [userId |-> CHOOSE u \in Users : FirstAccount[u] = a, balance |-> 0]]
    /\ transactions = <<>>

InitSlots ==
    /\ pc = [p \in Procs |-> "idle"]
    /\ call = [p \in Procs |-> NoCall]
    /\ faults = 0
    /\ request = NoRequest
    /\ response = "NONE"
    /\ before = NoTables
    /\ previous = NoPrevious
    /\ result = NoResult

Init == InitTables /\ InitSlots /\ observing = FALSE

InitSeq == InitTables /\ InitSlots /\ observing = TRUE

\* Slot p can start a handler: what every first step checks before it looks at
\* the request (a rejected request is a step only when a client records it).
Accepting(p) == CanSend(p) /\ (observing \/ HasBudget)

Step(p) ==
    \/ Accepting(p) /\ \E u \in Users, d \in AccountData : deposit(p, u, d)
    \/ depositCreate(p)
    \/ depositUpdateBalance(p)
    \/ Accepting(p) /\ \E u \in Users, d \in AccountData : withdraw(p, u, d)
    \/ withdrawCreate(p)
    \/ withdrawUpdateBalance(p)
    \/ Accepting(p) /\ \E u \in Users, d \in TransferData : transfer(p, u, d)
    \/ transferFindByUserEmail(p)
    \/ transferCreate(p)
    \/ transferDebit(p)
    \/ transferCredit(p)
    \/ Accepting(p) /\ \E u \in Users, t \in TxIds : reverseTransaction(p, u, t)
    \/ reverseHasBeenReversed(p)
    \/ reverseFindByUserId(p)
    \/ reverseCreate(p)
    \/ reverseCredit(p)
    \/ reverseDebit(p)

\* Concurrent requests, database calls that may throw.
Next == \E p \in Procs : Step(p) \/ StorageFailure(p)

Spec == Init /\ [][Next]_vars

\* One client, one request at a time, every database call answers.
NextSeq == Step("p1") \/ Forget

SpecSeq == InitSeq /\ [][NextSeq]_vars

\* The same client, reading its transaction list between its requests.
NextList ==
    \/ Step("p1")
    \/ Accepting("p1") /\ \E u \in Users : getTransactions("p1", u)
    \/ Forget

SpecList == InitSeq /\ [][NextList]_vars

\* An empty database; one client that registers users and creates accounts.
InitAccounts ==
    /\ accounts = <<>>
    /\ transactions = <<>>
    /\ InitSlots
    /\ observing = TRUE

NextAccounts ==
    \/ CanSend("p1") /\ \E email \in Emails \ {UnknownEmail} : UserService_create("p1", email)
    \/ UserService_createTransaction("p1")
    \/ CanSend("p1") /\ \E u \in Users \cup {NoUser} : createAccount("p1", u)
    \/ Forget

SpecAccounts == InitAccounts /\ [][NextAccounts]_vars

\* The same client against the route handlers that use prisma directly.
RouteStep(p) ==
    \/ Accepting(p) /\ \E u \in Users, d \in AccountData : depositPOST(p, u, d)
    \/ depositPOSTTransaction(p)
    \/ Accepting(p) /\ \E u \in Users, d \in TransferData : transferPOST(p, u, d)
    \/ transferPOSTFindUser(p)
    \/ transferPOSTFindAccount(p)
    \/ transferPOSTTransaction(p)
    \/ Accepting(p) /\ \E u \in Users, t \in TxIds : reversalPOST(p, u, t)
    \/ reversalPOSTTransaction(p)

NextRoute == RouteStep("p1") \/ Forget

SpecRoute == InitSeq /\ [][NextRoute]_vars

\* ================================================================ claims
\* What a Transaction row does to the balance of account a.
Effect(row, a) ==
    CASE row.type = "DEPOSIT" -> IF row.accountId = a THEN row.amount ELSE 0
      [] row.type = "WITHDRAW" -> IF row.accountId = a THEN 0 - row.amount ELSE 0
      [] OTHER -> (IF row.receiverAccountId = a THEN row.amount ELSE 0)
                  - (IF row.senderAccountId = a THEN row.amount ELSE 0)

RECURSIVE Ledger(_, _)
Ledger(a, n) == IF n = 0 THEN 0 ELSE Ledger(a, n - 1) + Effect(transactions[n], a)

\* The REVERSAL rows of table `txs` that reference transaction t.
ReversalsOf(txs, t) ==
    {i \in 1..Len(txs) : txs[i].type = "REVERSAL" /\ txs[i].reversedTransactionId = t}

\* The client's request has been answered.
Answered(op) == request.op = op /\ response \notin {Pending, "NONE"}

\* The row the client's reversal request names, as it was when the request was made.
Original == before.transactions[request.transactionId]

\* The client asks to reverse a row that existed when it asked.
ReversalOfExisting(op) ==
    /\ Answered(op)
    /\ request.transactionId \in 1..Len(before.transactions)

\* The client's request names an account that exists and that it owns.
OwnAccount ==
    /\ request.accountId \in DOMAIN before.accounts
    /\ before.accounts[request.accountId].userId = request.userId

\* C1: under any interleaving of concurrent ReverseTransaction requests for the
\* same TRANSFER, at most one REVERSAL row references that TRANSFER through
\* reversedTransactionId (at most one of the requests gets to commit).
C1_AtMostOneReversal ==
    \A t \in 1..Len(transactions) : Cardinality(ReversalsOf(transactions, t)) <= 1

\* C2: every operation commits its balance adjustments and its Transaction row
\* as one unit: in every state another request can read, also after a storage
\* step has failed, each balance is the sum of what the recorded rows do to it
\* (no row without its balance changes, no balance change without the others).
C2_AllOrNothing ==
    \A a \in AccountIds : accounts[a].balance = Ledger(a, Len(transactions))

\* C3: the balance check and the debit of a Transfer are atomic together, so
\* concurrent transfers never debit more than the source has: an account that
\* only transfers have debited (no WITHDRAW filed under it, no REVERSAL debiting
\* it) never has a balance below zero.
C3_TransfersNeverOvercommit ==
    \A a \in AccountIds :
        (\A i \in 1..Len(transactions) :
            /\ ~(transactions[i].type = "WITHDRAW" /\ transactions[i].accountId = a)
            /\ ~(transactions[i].type = "REVERSAL" /\ transactions[i].senderAccountId = a))
        => accounts[a].balance >= 0

\* C4: a successful Transfer takes exactly amount from the source and adds
\* exactly amount to the target, so the sum of the two balances is the same
\* right after the transfer as right before it.
C4_TransferConservesSum ==
    Answered("transfer") /\ response = Success =>
        \E tgt \in findByUserEmail(request.targetEmail) :
            LET src == request.accountId
                amt == request.amount
            IN /\ accounts[src].balance = before.accounts[src].balance - amt
               /\ accounts[tgt].balance = before.accounts[tgt].balance + amt
               /\ accounts[src].balance + accounts[tgt].balance
                    = before.accounts[src].balance + before.accounts[tgt].balance

C4_Witness ==
    /\ Answered("transfer")
    /\ response = Success
    /\ request.amount > 0
    /\ accounts[request.accountId].balance < before.accounts[request.accountId].balance

\* C5: when the original sender calls ReverseTransaction(T) twice in sequence
\* for a TRANSFER T, the first call succeeds and the second fails with
\* AlreadyReversed and leaves every balance and the set of rows as they were
\* after the first call.
C5_SecondReversalRejected ==
    /\ ( /\ ReversalOfExisting("reverseTransaction")
         /\ Original.type = "TRANSFER"
         /\ ReversalsOf(before.transactions, request.transactionId) = {}
         /\ before.accounts[Original.senderAccountId].userId = request.userId )
       => response = Success
    /\ ( /\ Answered("reverseTransaction")
         /\ previous.request.op = "reverseTransaction"
         /\ previous.request.transactionId = request.transactionId
         /\ previous.request.userId = request.userId )
       => (response = TRANSACTION_ALREADY_REVERSED /\ Tables = before)

C5_Witness ==
    /\ Answered("reverseTransaction")
    /\ previous.request.op = "reverseTransaction"
    /\ previous.request.transactionId = request.transactionId
    /\ previous.request.userId = request.userId
    /\ response = TRANSACTION_ALREADY_REVERSED
    /\ Cardinality(ReversalsOf(transactions, request.transactionId)) = 1

\* C6: a Transfer T followed immediately by ReverseTransaction(T) leaves the
\* source balance and the target balance at the values they had right before T.
C6_ReversalRestoresBalances ==
    ( /\ Answered("reverseTransaction")
      /\ response = Success
      /\ previous.request.op = "transfer"
      /\ previous.created = request.transactionId )
    => LET src == transactions[request.transactionId].senderAccountId
           tgt == transactions[request.transactionId].receiverAccountId
       IN /\ src = previous.request.accountId
          /\ tgt \in findByUserEmail(previous.request.targetEmail)
          /\ accounts[src].balance = previous.balances[src]
          /\ accounts[tgt].balance = previous.balances[tgt]

C6_Witness ==
    /\ Answered("reverseTransaction")
    /\ response = Success
    /\ previous.request.op = "transfer"
    /\ previous.created = request.transactionId
    /\ previous.request.amount > 0
    /\ before.accounts[previous.request.accountId].balance
         < previous.balances[previous.request.accountId]

\* C7: ReverseTransaction on a DEPOSIT, WITHDRAW or REVERSAL row always fails
\* with OnlyTransfersCanBeReversed, whoever the caller is, changes no balance
\* and creates no row.  Taken here for the caller who owns the account the row
\* is filed under, the one caller the permission check lets through.
C7_OnlyTransfersReversed ==
    ( /\ ReversalOfExisting("reversalPOST")
      /\ Original.type # "TRANSFER"
      /\ before.accounts[Original.accountId].userId = request.userId )
    => (response = ONLY_TRANSFERS_CAN_BE_REVERSED /\ Tables = before)

\* C8: ReverseTransaction of a TRANSFER succeeds only for the owner of its
\* sender account; the receiver or any other user is refused, and nothing
\* changes.
C8_OnlySenderReverses ==
    ( /\ ReversalOfExisting("reversalPOST")
      /\ Original.type = "TRANSFER"
      /\ before.accounts[Original.senderAccountId].userId # request.userId )
    => (response \in {FORBIDDEN, ONLY_SENDER_CAN_REVERSE} /\ Tables = before)

\* C9: a Transfer (amount > 0, from an account the caller owns) whose
\* targetEmail resolves to the source account itself fails with
\* SameAccountTransfer whatever the amount and the source balance, also when
\* the balance is below the amount, and changes nothing.
C9_SelfTransferRejected ==
    ( /\ Answered("transfer")
      /\ request.amount > 0
      /\ OwnAccount
      /\ findByUserEmail(request.targetEmail) = {request.accountId} )
    => (response = SAME_ACCOUNT /\ Tables = before)

\* C10 as claimed: ReverseTransaction is balance-checked against the account
\* it debits: when the original receiver's balance is below the transfer amount
\* the reversal is rejected and nothing changes, so a reversal never takes the
\* receiver below zero.
C10_ReversalBalanceChecked ==
    ( /\ ReversalOfExisting("reverseTransaction")
      /\ Original.type = "TRANSFER"
      /\ before.accounts[Original.receiverAccountId].balance < Original.amount )
    => (response # Success /\ Tables = before)

\* C10 as amended: ReverseTransaction is not balance-checked: requested by the
\* owner of the sender account for a TRANSFER that has no reversal, it succeeds
\* whatever the balance of the original receiver and debits that account by the
\* transfer amount, below zero when the balance was lower than the amount.
C10_ReversalNotBalanceChecked ==
    ( /\ ReversalOfExisting("reverseTransaction")
      /\ Original.type = "TRANSFER"
      /\ ReversalsOf(before.transactions, request.transactionId) = {}
      /\ before.accounts[Original.senderAccountId].userId = request.userId )
    => /\ response = Success
       /\ accounts[Original.receiverAccountId].balance
            = before.accounts[Original.receiverAccountId].balance - Original.amount

C10_Witness ==
    /\ ReversalOfExisting("reverseTransaction")
    /\ response = Success
    /\ before.accounts[Original.receiverAccountId].balance < Original.amount
    /\ accounts[Original.receiverAccountId].balance < 0

\* C11: a Transfer (amount > 0, source owned by the caller, well-formed email)
\* whose amount is greater than the source balance fails with
\* InsufficientBalance, creates no row and changes no balance; one whose amount
\* equals the source balance passes the balance check.
C11_TransferBalanceCheck ==
    ( /\ Answered("transfer")
      /\ request.amount > 0
      /\ isValidEmail(request.targetEmail)
      /\ OwnAccount )
    => /\ before.accounts[request.accountId].balance < request.amount
            => (response = INSUFFICIENT_BALANCE /\ Tables = before)
       /\ before.accounts[request.accountId].balance = request.amount
            => response # INSUFFICIENT_BALANCE

C11_Witness ==
    /\ Answered("transfer")
    /\ OwnAccount
    /\ request.targetEmail \in {UserEmail[u] : u \in Users \ {request.userId}}
    /\ request.amount > 0
    /\ before.accounts[request.accountId].balance < request.amount
    /\ response = INSUFFICIENT_BALANCE
    /\ Len(transactions) > 0

\* The accounts of `accts` with the balance of account a lowered by amount.
Debited(accts, a, amount) == [accts EXCEPT ![a].balance = @ - amount]

C14_NonPositiveAmountInvalid ==
    ( /\ \/ Answered("deposit")
         \/ Answered("withdraw")
         \/ Answered("transfer")
      /\ request.amount <= 0 )
    => (response = INVALID_AMOUNT /\ Tables = before)

\* The request carries the ids the handler asks for before it looks at the amount.
RequiredFieldsPresent ==
    /\ request.userId # NoUser
    /\ request.accountId # NoAccount
    /\ request.op = "transfer" => request.targetEmail # ""

\* C14 as amended: Deposit, Withdraw and Transfer called with amount <= 0
\* always fail and change no balance and create no row; the failure is
\* InvalidAmount when the account id (and for Transfer the target email) is
\* present, whatever else the request holds, and InvalidData when it is missing.
C14_NonPositiveAmountRejected ==
    ( /\ \/ Answered("deposit")
         \/ Answered("withdraw")
         \/ Answered("transfer")
      /\ request.amount <= 0 )
    => /\ Tables = before
       /\ response = IF RequiredFieldsPresent THEN INVALID_AMOUNT ELSE INVALID_DATA

C14_Witness ==
    /\ Answered("transfer")
    /\ request.amount < 0
    /\ RequiredFieldsPresent
    /\ ~OwnAccount
    /\ ~isValidEmail(request.targetEmail)
    /\ response = INVALID_AMOUNT
    /\ Len(transactions) > 0

\* The client's request names an existing account that another user owns.
ForeignAccount ==
    /\ request.accountId \in DOMAIN before.accounts
    /\ before.accounts[request.accountId].userId # request.userId

\* The request gets past the handler's validation of its fields.
WellFormed ==
    /\ RequiredFieldsPresent
    /\ request.amount > 0
    /\ request.op = "transfer" => isValidEmail(request.targetEmail)

\* C15: Deposit, Withdraw and Transfer mutate an account only when the caller
\* owns it: a request that names an existing account of another user never
\* succeeds, changes no balance and creates no row, and one that is well formed
\* is answered AccountNotFound.
C15_OnlyOwnerMutates ==
    ( /\ \/ Answered("deposit")
         \/ Answered("withdraw")
         \/ Answered("transfer")
      /\ ForeignAccount )
    => /\ response # Success
       /\ Tables = before
       /\ WellFormed => response = ACCOUNT_NOT_FOUND

C15_Witness ==
    /\ Answered("transfer")
    /\ ForeignAccount
    /\ WellFormed
    /\ before.accounts[request.accountId].balance >= request.amount
    /\ request.targetEmail = UserEmail[request.userId]
    /\ response = ACCOUNT_NOT_FOUND

\* C16: ReverseTransaction never modifies the original TRANSFER row: every
\* field of it, its own reversedTransactionId included, is the same after the
\* reversal as before; the link is carried by the new REVERSAL row only.
C16_OriginalUntouched ==
    ( /\ ReversalOfExisting("reversalPOST")
      /\ Original.type = "TRANSFER"
      /\ response = Success )
    => transactions[request.transactionId] = Original

\* C17: every REVERSAL row points through reversedTransactionId at an existing
\* TRANSFER row T and has amount = T.amount, senderAccountId =
\* T.receiverAccountId, receiverAccountId = T.senderAccountId and accountId =
\* T.senderAccountId.
C17_ReversalMirrorsTransfer ==
    \A i \in 1..Len(transactions) :
        transactions[i].type = "REVERSAL" =>
            LET t == transactions[i].reversedTransactionId IN
            /\ t \in 1..Len(transactions)
            /\ transactions[t].type = "TRANSFER"
            /\ transactions[i].amount = transactions[t].amount
            /\ transactions[i].senderAccountId = transactions[t].receiverAccountId
            /\ transactions[i].receiverAccountId = transactions[t].senderAccountId
            /\ transactions[i].accountId = transactions[t].senderAccountId

\* C18: a TRANSFER starts with no REVERSAL referencing it and can only become
\* REVERSED; once a REVERSAL references it that stays so in every later state,
\* the reversal is never removed and no second one is added; DEPOSIT, WITHDRAW
\* and REVERSAL rows never get a row that reverses them.
C18_ReversedIsTerminal ==
    [][\A t \in 1..Len(transactions) :
          /\ ReversalsOf(transactions, t) # {}
                => ReversalsOf(transactions', t) = ReversalsOf(transactions, t)
          /\ transactions[t].type # "TRANSFER" => ReversalsOf(transactions', t) = {}]_vars

\* Row i of the table involves account a.
Touches(i, a) ==
    \/ transactions[i].accountId = a
    \/ transactions[i].senderAccountId = a
    \/ transactions[i].receiverAccountId = a

\* Only deposits and withdrawals have been recorded for account a.
OnlyDepositsAndWithdrawals(a) ==
    \A i \in 1..Len(transactions) :
        Touches(i, a) => transactions[i].type \in {"DEPOSIT", "WITHDRAW"}

\* Every handler has run to its end and no database call has thrown.
AllCompleted == (\A p \in Procs : pc[p] = "idle") /\ faults = 0

\* C19: for any interleaving of concurrent Deposits and Withdrawals on one
\* account, once all of them have completed the balance is the initial balance
\* (0) plus the deposited amounts minus the withdrawn amounts: no adjustment is
\* lost or applied twice.
C19_NoLostAdjustment ==
    AllCompleted =>
        \A a \in AccountIds :
            OnlyDepositsAndWithdrawals(a)
                => accounts[a].balance = Ledger(a, Len(transactions))

C19_Witness ==
    /\ AllCompleted
    /\ \E a \in AccountIds :
        /\ OnlyDepositsAndWithdrawals(a)
        /\ Cardinality({i \in 1..Len(transactions) :
                            Touches(i, a) /\ transactions[i].type = "DEPOSIT"}) >= 2
        /\ Cardinality({i \in 1..Len(transactions) :
                            Touches(i, a) /\ transactions[i].type = "WITHDRAW"}) >= 2
        /\ accounts[a].balance = 0

\* C20: a successful Deposit increments the account's balance by exactly
\* amount and creates exactly one DEPOSIT row with accountId = the account,
\* receiverAccountId = the same account, senderAccountId = null and the amount.
C20_DepositRecord ==
    (Answered("deposit") /\ response = Success)
    => /\ accounts = Debited(before.accounts, request.accountId, 0 - request.amount)
       /\ Len(transactions) = Len(before.transactions) + 1
       /\ transactions[Len(transactions)]
            = Row("DEPOSIT", request.amount, request.accountId,
                  NoAccount, request.accountId, NoTx)

\* C21: every TRANSFER row has accountId = senderAccountId = the source
\* account, which the caller owns, and receiverAccountId = the account the
\* targetEmail resolves to, both non-null, and its amount is the amount by
\* which the transfer moved the two balances.
C21_TransferRecord ==
    /\ \A i \in 1..Len(transactions) :
          transactions[i].type = "TRANSFER" =>
              /\ transactions[i].senderAccountId \in DOMAIN accounts
              /\ transactions[i].receiverAccountId \in DOMAIN accounts
              /\ transactions[i].accountId = transactions[i].senderAccountId
    /\ (Answered("transfer") /\ response = Success) =>
          LET row == transactions[Len(transactions)] IN
          /\ Len(transactions) = Len(before.transactions) + 1
          /\ row.type = "TRANSFER"
          /\ OwnAccount
          /\ row.accountId = request.accountId
          /\ row.senderAccountId = request.accountId
          /\ row.receiverAccountId \in findByUserEmail(request.targetEmail)
          /\ row.receiverAccountId # NoAccount
          /\ row.amount = request.amount
          /\ before.accounts[row.senderAccountId].balance
                - accounts[row.senderAccountId].balance = row.amount
          /\ accounts[row.receiverAccountId].balance
                - before.accounts[row.receiverAccountId].balance = row.amount

C21_Witness ==
    /\ Answered("transfer")
    /\ response = Success
    /\ transactions[Len(transactions)].type = "TRANSFER"
    /\ transactions[Len(transactions)].receiverAccountId # request.accountId
    /\ \E i \in 1..Len(before.transactions) : before.transactions[i].type = "TRANSFER"

\* C27: in every reachable state every Transaction row has amount > 0, and no
\* step changes the amount of a row that exists.
C27_AmountPositiveAndFixed ==
    /\ [](\A i \in 1..Len(transactions) : transactions[i].amount > 0)
    /\ [][\A i \in 1..Len(transactions) :
             /\ i <= Len(transactions')
             /\ transactions'[i].amount = transactions[i].amount]_vars

C27_Witness ==
    /\ \E i \in 1..Len(transactions) : transactions[i].type = "REVERSAL"
    /\ \E i \in 1..Len(transactions) : transactions[i].type = "WITHDRAW"
    /\ \E i \in 1..Len(transactions) : transactions[i].type = "DEPOSIT"
    /\ AllCompleted

\* C28: once every request has run to its end, the balance of each account is
\* the signed sum of the rows that touch it: + DEPOSIT, - WITHDRAW, - TRANSFER
\* sent, + TRANSFER received, + REVERSAL received, - REVERSAL sent (from 0).
C28_BalanceIsLedger ==
    AllCompleted =>
        \A a \in DOMAIN accounts :
            accounts[a].balance
                = Ledger(a, Len(transactions))

C28_Witness ==
    /\ AllCompleted
    /\ \E i \in 1..Len(transactions) : transactions[i].type = "REVERSAL"
    /\ \E i \in 1..Len(transactions) : transactions[i].type = "WITHDRAW"
    /\ \E a \in DOMAIN accounts : accounts[a].balance < 0

\* The failures a handler answers from its own checks.
BusinessFailures ==
    {INVALID_DATA, INVALID_AMOUNT, ACCOUNT_NOT_FOUND, INSUFFICIENT_BALANCE,
     RECIPIENT_NOT_FOUND, SAME_ACCOUNT, TRANSACTION_NOT_FOUND,
     ONLY_TRANSFERS_CAN_BE_REVERSED, TRANSACTION_ALREADY_REVERSED,
     ONLY_SENDER_CAN_REVERSE}

\* C29: a deposit, withdraw, transfer or reverseTransaction answered with a
\* business-rule failure has changed no balance and no Transaction row.
C29_FailureChangesNothing ==
    (/\ request.op \in {"deposit", "withdraw", "transfer", "reverseTransaction"}
     /\ response \in BusinessFailures)
        => /\ accounts = before.accounts
           /\ transactions = before.transactions

C29_Witness ==
    /\ request.op = "reverseTransaction"
    /\ response = ONLY_SENDER_CAN_REVERSE
    /\ Len(transactions) > 0
    /\ \E a \in DOMAIN accounts : accounts[a].balance # 0

\* C26: a Transfer with amount > 0 from an account the caller owns to a (well
\* formed) targetEmail that resolves to no user with an account fails with
\* RecipientNotFound, changes no balance and creates no row.
C26_UnknownRecipientRejected ==
    ( /\ Answered("transfer")
      /\ request.amount > 0
      /\ OwnAccount
      /\ isValidEmail(request.targetEmail)
      /\ findByUserEmail(request.targetEmail) = {NoAccount} )
    => (response = RECIPIENT_NOT_FOUND /\ Tables = before)

\* CanReverse of the design: the row is a TRANSFER, the user owns its sender
\* account and no REVERSAL row references it.
CanReverse(tables, id, userId) ==
    /\ tables.transactions[id].type = "TRANSFER"
    /\ tables.transactions[id].senderAccountId \in DOMAIN tables.accounts
    /\ tables.accounts[tables.transactions[id].senderAccountId].userId = userId
    /\ ReversalsOf(tables.transactions, id) = {}

\* C30: the reversal guard is one predicate everywhere: for every existing
\* transaction and every user, the list's canReverseTransaction (on the list
\* data of the moment) offers the reversal exactly when the reversal request is
\* accepted, and both are CanReverse.
C30_OneReversalGuard ==
    ( /\ request.op \in {"reverseTransaction", "reversalPOST"}
      /\ response \notin {Pending, "NONE"}
      /\ request.transactionId \in 1..Len(before.transactions) )
    => /\ canReverseTransaction(Included(before, request.transactionId), request.userId)
            <=> CanReverse(before, request.transactionId, request.userId)
       /\ (response = Success)
            <=> CanReverse(before, request.transactionId, request.userId)

\* C25: a successful Deposit, Withdraw or Transfer returns the balance of the
\* acting (source) account as it is after the operation, together with the
\* created transaction.
C25_ReturnsNewBalance ==
    ( /\ request.op \in {"deposit", "withdraw", "transfer"}
      /\ response = Success )
    => /\ "newBalance" \in DOMAIN result
       /\ result.newBalance = accounts[request.accountId].balance
       /\ "id" \in DOMAIN result
       /\ result.id = Len(transactions)

\* The ids of the rows the answered list holds, in the order of the list.
Listed == [k \in DOMAIN result.transactions |-> result.transactions[k].id]

\* The accounts of table `accts` that belong to the user.
AccountsOf(accts, userId) == {a \in DOMAIN accts : accts[a].userId = userId}

\* C22: the list of a user holds exactly the transactions whose filing account,
\* sender account or receiver account belongs to that user: every such
\* transaction, none that touches only other users' accounts, each exactly once.
C22_ListIsExact ==
    (request.op = "getTransactions" /\ response = Success) =>
        LET mine == AccountsOf(before.accounts, request.userId) IN
        /\ \A i \in 1..Len(before.transactions) :
              Cardinality({k \in DOMAIN Listed : Listed[k] = i})
                 = IF \/ before.transactions[i].accountId \in mine
                      \/ before.transactions[i].senderAccountId \in mine
                      \/ before.transactions[i].receiverAccountId \in mine
                   THEN 1 ELSE 0
        /\ \A k \in DOMAIN Listed : Listed[k] \in 1..Len(before.transactions)

C22_Witness ==
    /\ request.op = "getTransactions"
    /\ response = Success
    /\ Len(Listed) >= 2
    /\ Len(Listed) < Len(transactions)
    /\ \E k \in DOMAIN Listed :
          /\ transactions[Listed[k]].type = "TRANSFER"
          /\ OwnerOf(transactions[Listed[k]].receiverAccountId) = request.userId
          /\ OwnerOf(transactions[Listed[k]].senderAccountId) # request.userId

\* C23: the list is ordered by createdAt descending and, among transactions
\* with the same createdAt, by transaction id (one direction throughout), so
\* the same stored transactions always come in the same order.
C23_ListOrder ==
    (request.op = "getTransactions" /\ response = Success) =>
        LET list == result.transactions
            Tied(k) == list[k].createdAt = list[k + 1].createdAt
        IN
        /\ \A k \in 1..(Len(list) - 1) : list[k].createdAt >= list[k + 1].createdAt
        /\ \/ \A k \in 1..(Len(list) - 1) : Tied(k) => list[k].id < list[k + 1].id
           \/ \A k \in 1..(Len(list) - 1) : Tied(k) => list[k].id > list[k + 1].id

\* C24: in every reachable state each user owns at most one account: no
\* sequence of registrations and account-creation requests leaves a user with
\* two accounts.
C24_AtMostOneAccount ==
    \A u \in Users : Cardinality(findByUserId(u)) <= 1

====
